---- MODULE Spec2Model ----
(***************************************************************************)
(* State-machine model of the connectivity core:                           *)
(*   - the configuration parameter registry of wifiConfig.h (the global    *)
(*     containers configParams / configValues and the config file), and    *)
(*   - the MQTTManager class of mqtt_manager.h (topic registry, connection *)
(*     lifecycle, inbound dispatch, status publishing).                    *)
(* Strings of the program are TLA+ strings; Len, \o and SubSeq give their  *)
(* length, concatenation and prefixes.                                     *)
(***************************************************************************)
EXTENDS Integers, Sequences, FiniteSets, TLC

VARIABLES
  configParams,   \* std::vector<ConfigParam>: the ordered parameter sequence
  configValues,   \* std::map<String,String>: key -> current value
  fileStore,      \* content of CONFIG_FILE on the flash filesystem
  regCall,        \* the last registry operation, its arguments and result
  savedMap,       \* history: configValues as of the write that produced fileStore
  fresh,          \* history: only registerParam/readConfig ran since boot
  mqttClient,     \* MQTTManager::mqttClient: "client", or "null" for a null pointer
  topics,         \* MQTTManager::topics, the vector of MQTTTopic bindings
  deviceStatus,   \* MQTTManager::deviceStatus
  lastStatusPublish,      \* uint32_t, ms
  statusPublishInterval,  \* uint32_t, ms
  autoStatusReport,       \* bool
  transport,      \* the PubSubClient: [connected, subs] (subscriptions of the session)
  now,            \* millis(), a 32-bit millisecond clock
  ticks,          \* history: how many times the clock was advanced
  wifi,           \* what WiFi.RSSI() and WiFi.localIP() return: [rssi, ip]
  out             \* what the last step did: the call, its requests to the
                  \* transport, its handler invocations, its return value

regVars == <<configParams, configValues, fileStore, regCall, savedMap, fresh>>
mqttVars == <<mqttClient, topics, deviceStatus, lastStatusPublish, statusPublishInterval,
              autoStatusReport, transport, now, ticks, wifi, out>>
vars == <<configParams, configValues, fileStore, regCall, savedMap, fresh,
          mqttClient, topics, deviceStatus, lastStatusPublish, statusPublishInterval,
          autoStatusReport, transport, now, ticks, wifi, out>>

(***************************************************************************)
(* Generic helpers for sequences and maps.                                 *)
(***************************************************************************)
\* Index of the first element of s satisfying key equality, 0 when absent
\* (the "for (auto it = begin; it != end; ++it) if (it->key == key)" loops).
RECURSIVE FirstFrom(_, _, _)
FirstFrom(keys, key, i) ==
  IF i > Len(keys) THEN 0
  ELSE IF keys[i] = key THEN i
  ELSE FirstFrom(keys, key, i + 1)

RemoveAt(s, i) == SubSeq(s, 1, i - 1) \o SubSeq(s, i + 1, Len(s))

EmptyMap == [k \in {} |-> ""]
MapPut(m, k, v) == [x \in (DOMAIN m) \cup {k} |-> IF x = k THEN v ELSE m[x]]
MapErase(m, k) == [x \in (DOMAIN m) \ {k} |-> m[x]]

\* strncpy(dst, s, n) into a zeroed buffer of n+1 bytes: the first n characters.
Truncate(s, n) == IF Len(s) <= n THEN s ELSE SubSeq(s, 1, n)

(***************************************************************************)
(* JSON values and the conversions the code applies to them.               *)
(***************************************************************************)
JStr(s) == [t |-> "str", s |-> s, n |-> 0]
JNum(n) == [t |-> "num", s |-> "", n |-> n]

Digit(d) ==
  CASE d = 0 -> "0" [] d = 1 -> "1" [] d = 2 -> "2" [] d = 3 -> "3"
    [] d = 4 -> "4" [] d = 5 -> "5" [] d = 6 -> "6" [] d = 7 -> "7"
    [] d = 8 -> "8" [] OTHER -> "9"

RECURSIVE IntText(_)
IntText(n) == IF n < 10 THEN Digit(n) ELSE IntText(n \div 10) \o Digit(n % 10)

\* JsonVariant::as<String>(): a string member yields its text, any other
\* value yields its JSON serialization.
AsString(jv) == IF jv.t = "str" THEN jv.s ELSE IntText(jv.n)

(***************************************************************************)
(* The registry: inputs.                                                   *)
(***************************************************************************)
\* CONFIG_FILE: absent, present with content that is no JSON document (empty,
\* cut short, garbage), or present holding a JSON object key -> value.
NoFile == [kind |-> "none", doc |-> EmptyMap]
Corrupt == [kind |-> "corrupt", doc |-> EmptyMap]
DocFile(d) == [kind |-> "doc", doc |-> d]

NoMap == [has |-> FALSE, map |-> EmptyMap]
SomeMap(m) == [has |-> TRUE, map |-> m]

ParamKeys == {"mqtt_user", "mqtt_pass"}
ParamLabel(key) == IF key = "mqtt_user" THEN "MQTT User" ELSE "MQTT Password"
\* The declarations the firmware makes: <<key, defaultValue, maxLength>>.
ParamDecls == { <<"mqtt_user", "", 4>>, <<"mqtt_pass", "pw", 4>> }
SetValues == {"u", "secret"}
PortalValues == {"", "secret"}

\* Documents a previous firmware (or anything else) may have left in the file.
StoredDocs ==
  { [k \in {"mqtt_user", "other"} |-> IF k = "other" THEN JStr("x") ELSE JNum(42)] }

ParamKeysOf(params) == [i \in 1..Len(params) |-> params[i].key]
IndexOfParam(params, key) == FirstFrom(ParamKeysOf(params), key, 1)


(***************************************************************************)
(* The registry: operations as functions of the state they read.           *)
(***************************************************************************)
\* registerParam, lines 166-180: the ConfigParam built for a new key.  The
\* WiFiManagerParameter copies at most maxLength characters of the default.
NewParam(key, label, defaultValue, maxLength) ==
  [ key |-> key, label |-> label, defaultValue |-> defaultValue,
    maxLength |-> maxLength, value |-> defaultValue,
    wfmParam |-> Truncate(defaultValue, maxLength) ]

DoRegisterParam(params, values, key, label, defaultValue, maxLength) ==
  IF IndexOfParam(params, key) # 0
  THEN [params |-> params, values |-> values]
  ELSE [ params |-> Append(params, NewParam(key, label, defaultValue, maxLength)),
         values |-> MapPut(values, key, defaultValue) ]

\* Mutant: the parameter is erased from the sequence, its map entry is left.
DoUnregisterParam_LeavesMapEntry(params, values, key) ==
  LET i == IndexOfParam(params, key) IN
  IF i = 0
  THEN [params |-> params, values |-> values]
  ELSE [params |-> RemoveAt(params, i), values |-> values]

DoUnregisterParam(params, values, key) ==
  LET i == IndexOfParam(params, key) IN
  IF i = 0
  THEN [params |-> params, values |-> values]
  ELSE [params |-> RemoveAt(params, i), values |-> MapErase(values, key)]

\* getConfigValue: the mapped value, "" for an unknown key.
GetConfigValue(values, key) == IF key \in DOMAIN values THEN values[key] ELSE ""

\* saveConfig, lines 314-316: doc[param.key] = param.value in sequence order.
\* Mutant: the document is written from the defaults, not the current values.
RECURSIVE DocOfParams_Defaults(_, _, _)
DocOfParams_Defaults(params, i, doc) ==
  IF i > Len(params) THEN doc
  ELSE DocOfParams_Defaults(params, i + 1,
                            MapPut(doc, params[i].key, JStr(params[i].defaultValue)))

RECURSIVE DocOfParams(_, _, _)
DocOfParams(params, i, doc) ==
  IF i > Len(params) THEN doc
  ELSE DocOfParams(params, i + 1, MapPut(doc, params[i].key, JStr(params[i].value)))

\* saveConfig.  outcome is what the filesystem does: "open_fail" (open for
\* writing fails), "written" (the document is written in full), "write_fail"
\* (the file was opened, hence truncated, and the write did not complete;
\* the result of serializeJson is not looked at).
SaveOutcomes == {"open_fail", "written", "write_fail"}
DoSaveConfig(params, file, outcome) ==
  CASE outcome = "open_fail" -> [file |-> file, ret |-> FALSE]
    [] outcome = "written" -> [file |-> DocFile(DocOfParams(params, 1, EmptyMap)), ret |-> TRUE]
    [] OTHER -> [file |-> Corrupt, ret |-> TRUE]

\* setConfigValue, lines 231-239: the first parameter with that key gets the
\* value in the sequence and in the map; found tells whether saveConfig runs.
DoSetConfigValue(params, values, key, value) ==
  LET i == IndexOfParam(params, key) IN
  IF i = 0
  THEN [params |-> params, values |-> values, found |-> FALSE]
  ELSE [ params |-> [params EXCEPT ![i].value = value],
         values |-> MapPut(values, key, value),
         found |-> TRUE ]

\* readConfig, lines 289-295: every parameter whose key the document contains
\* takes the document's value, converted with as<String>().
RECURSIVE ApplyDoc(_, _, _, _)
ApplyDoc(params, values, doc, i) ==
  IF i > Len(params) THEN [params |-> params, values |-> values]
  ELSE IF params[i].key \in DOMAIN doc
       THEN LET v == AsString(doc[params[i].key]) IN
            ApplyDoc([params EXCEPT ![i].value = v],
                     MapPut(values, params[i].key, v), doc, i + 1)
       ELSE ApplyDoc(params, values, doc, i + 1)

\* readConfig.  openOk is whether the filesystem opens the existing file.
DoReadConfig(params, values, file, openOk) ==
  IF file.kind = "none" \/ ~openOk \/ file.kind = "corrupt"
  THEN [params |-> params, values |-> values, ret |-> FALSE]
  ELSE LET r == ApplyDoc(params, values, file.doc, 1) IN
       [params |-> r.params, values |-> r.values, ret |-> TRUE]

\* loadConfigFromWiFiManager, lines 331-340: a non-empty portal value that
\* differs from the current value replaces it in the sequence and the map.
RECURSIVE ApplyWfm(_, _, _, _)
ApplyWfm(params, values, changed, i) ==
  IF i > Len(params) THEN [params |-> params, values |-> values, changed |-> changed]
  ELSE LET v == params[i].wfmParam IN
       IF Len(v) > 0 /\ v # params[i].value
       THEN ApplyWfm([params EXCEPT ![i].value = v],
                     MapPut(values, params[i].key, v), TRUE, i + 1)
       ELSE ApplyWfm(params, values, changed, i + 1)

\* Mutant: the defaults are restored in the sequence, the map is left.
RECURSIVE ApplyDefaults_SequenceOnly(_, _, _)
ApplyDefaults_SequenceOnly(params, values, i) ==
  IF i > Len(params) THEN [params |-> params, values |-> values]
  ELSE ApplyDefaults_SequenceOnly([params EXCEPT ![i].value = params[i].defaultValue],
                                  values, i + 1)

\* resetConfig, lines 467-470: every parameter back to its default, in both.
RECURSIVE ApplyDefaults(_, _, _)
ApplyDefaults(params, values, i) ==
  IF i > Len(params) THEN [params |-> params, values |-> values]
  ELSE ApplyDefaults([params EXCEPT ![i].value = params[i].defaultValue],
                     MapPut(values, params[i].key, params[i].defaultValue), i + 1)

\* The history variable after a saveConfig with the given outcome.
SavedAfter(saved, values, outcome) ==
  CASE outcome = "open_fail" -> saved
    [] outcome = "written" -> SomeMap(values)
    [] OTHER -> NoMap

RegCall(op, key, value, ret) == [op |-> op, key |-> key, value |-> value, ret |-> ret]

(***************************************************************************)
(* The registry: actions.                                                  *)
(***************************************************************************)
RegisterParam(key, defaultValue, maxLength) ==
  LET r == DoRegisterParam(configParams, configValues, key, ParamLabel(key),
                           defaultValue, maxLength) IN
  /\ configParams' = r.params
  /\ configValues' = r.values
  /\ regCall' = RegCall("registerParam", "", "", TRUE)
  /\ UNCHANGED mqttVars
  /\ UNCHANGED <<fileStore, savedMap, fresh>>

UnregisterParam(key) ==
  LET r == DoUnregisterParam(configParams, configValues, key) IN
  /\ configParams' = r.params
  /\ configValues' = r.values
  /\ regCall' = RegCall("unregisterParam", "", "", TRUE)
  /\ UNCHANGED mqttVars
  /\ fresh' = FALSE
  /\ UNCHANGED <<fileStore, savedMap>>

ClearAllParams ==
  /\ configParams' = <<>>
  /\ configValues' = EmptyMap
  /\ regCall' = RegCall("clearAllParams", "", "", TRUE)
  /\ UNCHANGED mqttVars
  /\ fresh' = FALSE
  /\ UNCHANGED <<fileStore, savedMap>>

SaveConfig(outcome) ==
  LET w == DoSaveConfig(configParams, fileStore, outcome) IN
  /\ fileStore' = w.file
  /\ savedMap' = SavedAfter(savedMap, configValues, outcome)
  /\ regCall' = RegCall("saveConfig", "", "", w.ret)
  /\ UNCHANGED mqttVars
  /\ fresh' = FALSE
  /\ UNCHANGED <<configParams, configValues>>

\* setConfigValue: update, then saveConfig() when the key was found.
SetConfigValue(key, value, outcome) ==
  LET r == DoSetConfigValue(configParams, configValues, key, value)
      w == DoSaveConfig(r.params, fileStore, outcome) IN
  /\ (~r.found => outcome = "written")  \* input not read
  /\ configParams' = r.params
  /\ configValues' = r.values
  /\ fileStore' = IF r.found THEN w.file ELSE fileStore
  /\ savedMap' = IF r.found THEN SavedAfter(savedMap, r.values, outcome) ELSE savedMap
  /\ regCall' = RegCall("setConfigValue", key, value, r.found)
  /\ UNCHANGED mqttVars
  /\ fresh' = FALSE

ReadConfig(openOk) ==
  LET r == DoReadConfig(configParams, configValues, fileStore, openOk) IN
  /\ configParams' = r.params
  /\ configValues' = r.values
  /\ regCall' = RegCall("readConfig", "", "", r.ret)
  /\ UNCHANGED mqttVars
  /\ UNCHANGED <<fileStore, savedMap, fresh>>

\* loadConfigFromWiFiManager: apply the portal values, saveConfig() if changed.
LoadConfigFromWiFiManager(outcome) ==
  LET r == ApplyWfm(configParams, configValues, FALSE, 1)
      w == DoSaveConfig(r.params, fileStore, outcome) IN
  /\ (~r.changed => outcome = "written")  \* input not read
  /\ configParams' = r.params
  /\ configValues' = r.values
  /\ fileStore' = IF r.changed THEN w.file ELSE fileStore
  /\ savedMap' = IF r.changed THEN SavedAfter(savedMap, r.values, outcome) ELSE savedMap
  /\ regCall' = RegCall("loadConfigFromWiFiManager", "", "", r.changed)
  /\ UNCHANGED mqttVars
  /\ fresh' = FALSE

\* initWiFiManager, lines 361-365: setValue(param.value, param.maxLength).
RefreshWfm(params) ==
  [i \in 1..Len(params) |->
     [params[i] EXCEPT !.wfmParam = Truncate(params[i].value, params[i].maxLength)]]

\* The config portal: the user may overwrite one field (edit = 0: none); the
\* portal keeps at most maxLength characters of what was typed.
PortalEdit(params, edit, typed) ==
  IF edit = 0 THEN params
  ELSE [params EXCEPT ![edit].wfmParam = Truncate(typed, params[edit].maxLength)]

\* initWiFiManager: readConfig, refresh of the portal fields, the portal
\* itself, and loadConfigFromWiFiManager when the WiFi connection succeeded.
InitWiFiManager(openOk, edit, typed, connected, outcome) ==
  LET r == DoReadConfig(configParams, configValues, fileStore, openOk)
      p == PortalEdit(RefreshWfm(r.params), edit, typed)
      l == ApplyWfm(p, r.values, FALSE, 1)
      w == DoSaveConfig(l.params, fileStore, outcome)
      saves == connected /\ l.changed IN
  /\ (edit = 0 => typed = "") /\ (~saves => outcome = "written")  \* inputs not read
  /\ configParams' = IF connected THEN l.params ELSE p
  /\ configValues' = IF connected THEN l.values ELSE r.values
  /\ fileStore' = IF saves THEN w.file ELSE fileStore
  /\ savedMap' = IF saves THEN SavedAfter(savedMap, l.values, outcome) ELSE savedMap
  /\ regCall' = RegCall("initWiFiManager", "", "", connected)
  /\ UNCHANGED mqttVars
  /\ fresh' = FALSE

\* resetConfig: remove the file if it exists, every parameter to its default.
ResetConfig ==
  LET r == ApplyDefaults(configParams, configValues, 1) IN
  /\ fileStore' = NoFile
  /\ configParams' = r.params
  /\ configValues' = r.values
  /\ savedMap' = NoMap
  /\ regCall' = RegCall("resetConfig", "", "", TRUE)
  /\ UNCHANGED mqttVars
  /\ fresh' = FALSE

\* A restart of the device: the global containers are constructed empty
\* again, the file stays on flash.
Restart ==
  /\ configParams' = <<>>
  /\ configValues' = EmptyMap
  /\ fresh' = TRUE
  /\ regCall' = RegCall("restart", "", "", TRUE)
  /\ UNCHANGED mqttVars
  /\ UNCHANGED <<fileStore, savedMap>>

InitParams ==
  /\ configParams = <<>>
  /\ configValues = EmptyMap
  /\ fileStore \in {NoFile, Corrupt} \cup {DocFile(d) : d \in StoredDocs}
  /\ savedMap = NoMap
  /\ fresh = TRUE
  /\ regCall = RegCall("restart", "", "", TRUE)

NextRegistry ==
  \/ \E d \in ParamDecls : RegisterParam(d[1], d[2], d[3])
  \/ \E k \in ParamKeys : UnregisterParam(k)
  \/ ClearAllParams
  \/ \E o \in SaveOutcomes : SaveConfig(o)
  \/ \E k \in ParamKeys, v \in SetValues, o \in SaveOutcomes : SetConfigValue(k, v, o)
  \/ \E ok \in BOOLEAN : ReadConfig(ok)
  \/ \E o \in SaveOutcomes : LoadConfigFromWiFiManager(o)
  \/ \E ok \in BOOLEAN, e \in 0..Len(configParams), t \in PortalValues,
         c \in BOOLEAN, o \in SaveOutcomes :
        InitWiFiManager(ok, e, t, c, o)
  \/ ResetConfig
  \/ Restart

(***************************************************************************)
(* The MQTT manager: constructor arguments, inputs and helpers.            *)
(***************************************************************************)
DeviceId == "dev1"           \* constructor argument deviceId
BaseTopicPrefix == "home"    \* constructor argument prefix (its default)
ChipType == "ESP32"          \* CHIP_TYPE
NullCb == "nullptr"

MaxTopics == 2               \* registerTopic is enabled below this many bindings
MsgBufSize == 256            \* char message[256]
DefaultStatusInterval == 30000
MaxTicks == 2                \* the clock is advanced at most this many times

\* uint32_t values (millis(), the interval, timestamps) as two 16-bit halves,
\* with the arithmetic of unsigned 32-bit integers.
Word == 2 ^ 16
U32(n) == [hi |-> n \div Word, lo |-> n % Word]
U32Add(a, b) ==
  LET lo == a.lo + b.lo
      hi == a.hi + b.hi + (lo \div Word) IN
  [hi |-> hi % Word, lo |-> lo % Word]
U32Sub(a, b) ==
  LET lo == a.lo - b.lo
      hi == a.hi - b.hi - (IF lo < 0 THEN 1 ELSE 0) IN
  [hi |-> hi % Word, lo |-> lo % Word]
U32Geq(a, b) == a.hi > b.hi \/ (a.hi = b.hi /\ a.lo >= b.lo)

\* By how much the clock may have advanced between two calls.
TimeSteps == {U32(30000)}

\* The registerTopic calls the firmware may make: <<name, onCommand, onMessage>>.
TopicDecls ==
  { <<"cmd", "onCmd", "onMsg">>, <<"cmd", NullCb, "onMsgB">>,
    <<"data", "onCmdB", NullCb>>, <<"data", NullCb, NullCb>> }
TopicNames == {d[1] : d \in TopicDecls}

\* buildTopic, line 437.
BuildTopic(ds, subTopic) == BaseTopicPrefix \o "/" \o ds.deviceId \o "/" \o subTopic

\* Topics other code subscribed through the same client, never registered here.
ForeignTopics == {"home/dev1/other", "home/dev2/cmd"}

\* Inbound payloads.  Each is one JSON value with nothing after it (or no
\* JSON at all), len bytes long; command is the value of its "command" member.
Payloads ==
  { [id |-> "cmd_reboot", len |-> 20, json |-> TRUE, hasCommand |-> TRUE, command |-> JStr("reboot")],
    [id |-> "cmd_7", len |-> 13, json |-> TRUE, hasCommand |-> TRUE, command |-> JNum(7)],
    [id |-> "plain", len |-> 11, json |-> TRUE, hasCommand |-> FALSE, command |-> JStr("")],
    [id |-> "garbage", len |-> 9, json |-> FALSE, hasCommand |-> FALSE, command |-> JStr("")],
    [id |-> "cmd_long", len |-> 300, json |-> TRUE, hasCommand |-> TRUE, command |-> JStr("reboot")] }

NoInbound == [topic |-> "", payload |-> ""]

\* snprintf(message, sizeof(message), "%.*s", length, payload): the first
\* sizeof(message) - 1 bytes at most.
MessageLen(payload) == IF payload.len <= MsgBufSize - 1 THEN payload.len ELSE MsgBufSize - 1

\* deserializeJson(doc, message) succeeds when the buffer holds the whole
\* JSON value; a value cut short is an incomplete document.
ParsesOk(payload) == payload.json /\ MessageLen(payload) = payload.len

Range(f) == {f[i] : i \in DOMAIN f}

\* What a call hands to the transport and to the handlers, and its result.
\* again tells that the step before was the same call.
\* events lists the handshakes, subscribe requests, publish requests and
\* handler invocations of the call in the order they were made.
NoEffects(op) ==
  [ op |-> op, ret |-> FALSE, connects |-> 0, auth |-> "", subs |-> <<>>,
    pubs |-> <<>>, calls |-> <<>>, inbound |-> NoInbound, again |-> FALSE,
    events |-> <<>> ]
After(prev, fx) == [fx EXCEPT !.again = (prev.op = fx.op)]

Ev(kind, what) == [kind |-> kind, what |-> what]
SubEvents(reqs) == [i \in 1..Len(reqs) |-> Ev("subscribe", reqs[i])]
PubEvents(pubs) == [i \in 1..Len(pubs) |-> Ev("publish", pubs[i].topic)]
CallEvents(calls) == [i \in 1..Len(calls) |-> Ev("call", calls[i].handler)]

\* connect(), lines 133-150: the handshake, subscribeToAllTopics(), then
\* publishOnlineStatus().
\* Mutant: the online event is published before the subscriptions.
ConnectEvents_OnlineFirst(answer, reqs, pubs) ==
  <<Ev("connect", answer)>> \o PubEvents(pubs) \o SubEvents(reqs)
ConnectEvents(answer, reqs, pubs) ==
  <<Ev("connect", answer)>> \o SubEvents(reqs) \o PubEvents(pubs)

\* loop(), lines 194-200: mqttClient->loop() runs the callback, then the
\* status interval is tested.
\* Mutant: the status is published before the client is serviced.
LoopEvents_StatusFirst(calls, pubs) == PubEvents(pubs) \o CallEvents(calls)
LoopEvents(calls, pubs) == CallEvents(calls) \o PubEvents(pubs)

(***************************************************************************)
(* The MQTT manager: operations as functions of the state they read.       *)
(***************************************************************************)
\* isConnected(), lines 181-183.
IsConnected(client, tr) == client # "null" /\ tr.connected

\* Mutant: publish() hands the message to the transport without asking
\* whether it is connected.
DoPublish_NoConnectedCheck(client, ds, tr, topic, payload) ==
  [pubs |-> << [topic |-> BaseTopicPrefix \o "/" \o ds.deviceId \o "/" \o topic,
                payload |-> payload] >>, ret |-> TRUE]

\* publish(topic, message), lines 232-246: the topic handed to the transport
\* is buildTopic(topic).  Yields the publish requests made and the result.
DoPublish(client, ds, tr, topic, payload) ==
  IF ~IsConnected(client, tr)
  THEN [pubs |-> <<>>, ret |-> FALSE]
  ELSE [pubs |-> << [topic |-> BuildTopic(ds, topic), payload |-> payload] >>, ret |-> TRUE]

EventTopic(ds, suffix) == BaseTopicPrefix \o "/" \o ds.deviceId \o "/" \o suffix

\* publishStatus(), lines 260-277.
StatusDoc(ds, t) ==
  [ device_id |-> ds.deviceId, chip_type |-> ds.chipType, is_connected |-> ds.isConnected,
    uptime |-> ds.uptime, signal_strength |-> ds.signalStrength,
    ip_address |-> ds.ipAddress, timestamp |-> t ]

DoPublishStatus(client, ds, tr, t) ==
  IF ~IsConnected(client, tr)
  THEN [pubs |-> <<>>, ret |-> FALSE]
  ELSE DoPublish(client, ds, tr, EventTopic(ds, "status"), StatusDoc(ds, t))

\* publishOnlineStatus(), lines 282-291.
OnlineDoc(ds, t, net) ==
  [device_id |-> ds.deviceId, status |-> "online", timestamp |-> t, ip_address |-> net.ip]

DoPublishOnlineStatus(client, ds, tr, t, net) ==
  DoPublish(client, ds, tr, EventTopic(ds, "online"), OnlineDoc(ds, t, net))

\* publishOfflineStatus(), lines 296-305: handed to the transport directly.
OfflineDoc == [status |-> "offline"]
DoPublishOfflineStatus(ds) ==
  << [topic |-> EventTopic(ds, "offline"), payload |-> OfflineDoc] >>

\* publishCommandResponse, lines 310-321.
ResponseDoc(command, success, message, t) ==
  [command |-> command, success |-> success, message |-> message, timestamp |-> t]

DoPublishCommandResponse(client, ds, tr, command, success, message, t) ==
  IF ~IsConnected(client, tr)
  THEN [pubs |-> <<>>, ret |-> FALSE]
  ELSE DoPublish(client, ds, tr, EventTopic(ds, "response"),
                 ResponseDoc(command, success, message, t))

\* subscribeToAllTopics(), lines 418-431: one subscribe request per binding,
\* in registration order.
SubscribeRequests(tps, ds) == [i \in 1..Len(tps) |-> BuildTopic(ds, tps[i].name)]

\* registerTopic, lines 83-94.
DoRegisterTopic(tps, name, cmdCallback, msgCallback) ==
  Append(tps, [name |-> name, onCommand |-> cmdCallback, onMessage |-> msgCallback])

\* unregisterTopic, lines 99-109: the first binding with that name is erased.
DoUnregisterTopic(tps, name) ==
  LET i == FirstFrom([j \in 1..Len(tps) |-> tps[j].name], name, 1) IN
  IF i = 0 THEN tps ELSE RemoveAt(tps, i)

\* Mutant: a successful connect() sets the flag and publishes the online
\* event without subscribing the bindings.
DoConnect_NoSubscribe(client, tps, ds, tr, values, t, net, handshakeOk) ==
  IF client = "null"
  THEN [ds |-> ds, tr |-> tr, fx |-> NoEffects("connect")]
  ELSE
    LET username == GetConfigValue(values, "mqtt_user")
        password == GetConfigValue(values, "mqtt_pass")
        auth == IF Len(username) > 0 /\ Len(password) > 0 THEN "credentials" ELSE "anonymous"
        connected == tr.connected \/ handshakeOk
    IN
    IF connected
    THEN LET ds1 == [ds EXCEPT !.isConnected = TRUE, !.lastUpdateTime = t]
             tr1 == [connected |-> TRUE, subs |-> tr.subs]
             online == DoPublishOnlineStatus(client, ds1, tr1, t, net)
         IN [ ds |-> ds1, tr |-> tr1,
              fx |-> [NoEffects("connect") EXCEPT !.ret = TRUE, !.connects = 1, !.auth = auth,
                                                  !.pubs = online.pubs,
                                                  !.events = ConnectEvents("accepted", <<>>, online.pubs)] ]
    ELSE [ ds |-> [ds EXCEPT !.isConnected = FALSE], tr |-> tr,
           fx |-> [NoEffects("connect") EXCEPT !.connects = 1, !.auth = auth,
                                               !.events = ConnectEvents("refused", <<>>, <<>>)] ]

\* connect(), lines 114-161.  handshakeOk is the broker's answer; a client
\* that is connected already answers true without a new handshake and keeps
\* its session.
DoConnect(client, tps, ds, tr, values, t, net, handshakeOk) ==
  IF client = "null"
  THEN [ds |-> ds, tr |-> tr, fx |-> NoEffects("connect")]
  ELSE
    LET username == GetConfigValue(values, "mqtt_user")
        password == GetConfigValue(values, "mqtt_pass")
        auth == IF Len(username) > 0 /\ Len(password) > 0 THEN "credentials" ELSE "anonymous"
        connected == tr.connected \/ handshakeOk
    IN
    IF connected
    THEN LET ds1 == [ds EXCEPT !.isConnected = TRUE, !.lastUpdateTime = t]
             reqs == SubscribeRequests(tps, ds1)
             tr1 == [connected |-> TRUE, subs |-> tr.subs \cup Range(reqs)]
             online == DoPublishOnlineStatus(client, ds1, tr1, t, net)
         IN [ ds |-> ds1, tr |-> tr1,
              fx |-> [NoEffects("connect") EXCEPT !.ret = TRUE, !.connects = 1, !.auth = auth,
                                                  !.subs = reqs, !.pubs = online.pubs,
                                                  !.events = ConnectEvents("accepted", reqs, online.pubs)] ]
    ELSE [ ds |-> [ds EXCEPT !.isConnected = FALSE], tr |-> tr,
           fx |-> [NoEffects("connect") EXCEPT !.connects = 1, !.auth = auth,
                                               !.events = ConnectEvents("refused", <<>>, <<>>)] ]

\* Mutant: the offline event is published without asking the transport
\* whether it is connected.
DoDisconnect_NoConnectedCheck(client, ds, tr) ==
  IF client # "null"
  THEN [ ds |-> [ds EXCEPT !.isConnected = FALSE],
         tr |-> [connected |-> FALSE, subs |-> {}],
         fx |-> [NoEffects("disconnect") EXCEPT !.pubs = DoPublishOfflineStatus(ds),
                                                !.events = PubEvents(DoPublishOfflineStatus(ds))] ]
  ELSE [ds |-> ds, tr |-> tr, fx |-> NoEffects("disconnect")]

\* disconnect(), lines 166-176.
DoDisconnect(client, ds, tr) ==
  IF IsConnected(client, tr)
  THEN [ ds |-> [ds EXCEPT !.isConnected = FALSE],
         tr |-> [connected |-> FALSE, subs |-> {}],
         fx |-> [NoEffects("disconnect") EXCEPT !.pubs = DoPublishOfflineStatus(ds),
                                                !.events = PubEvents(DoPublishOfflineStatus(ds))] ]
  ELSE [ds |-> ds, tr |-> tr, fx |-> NoEffects("disconnect")]

\* onMqttMessage, lines 378-413: the handler invocations for one message.
Invocation(handler, kind, arg, payload) ==
  [handler |-> handler, kind |-> kind, arg |-> arg, payload |-> payload.id]

\* Mutant: the loop over the bindings goes on after a match, so every
\* binding with the topic's name gets the message.
RECURSIVE InvokeAll(_, _, _, _, _)
InvokeAll(tps, ds, topic, payload, i) ==
  IF i > Len(tps) THEN <<>>
  ELSE LET here ==
             IF BuildTopic(ds, tps[i].name) # topic THEN <<>>
             ELSE IF payload.hasCommand /\ tps[i].onCommand # NullCb
                  THEN << Invocation(tps[i].onCommand, "command", AsString(payload.command), payload) >>
                  ELSE IF tps[i].onMessage # NullCb
                       THEN << Invocation(tps[i].onMessage, "message", topic, payload) >>
                       ELSE <<>>
       IN here \o InvokeAll(tps, ds, topic, payload, i + 1)
DoOnMqttMessage_NoReturn(tps, ds, topic, payload) ==
  IF ~ParsesOk(payload) THEN <<>> ELSE InvokeAll(tps, ds, topic, payload, 1)

\* Mutant: the message handler is preferred to the command handler.
DoOnMqttMessage_MessageFirst(tps, ds, topic, payload) ==
  IF ~ParsesOk(payload) THEN <<>>
  ELSE
    LET i == FirstFrom([j \in 1..Len(tps) |-> BuildTopic(ds, tps[j].name)], topic, 1) IN
    IF i = 0 THEN <<>>
    ELSE IF tps[i].onMessage # NullCb
         THEN << Invocation(tps[i].onMessage, "message", topic, payload) >>
         ELSE IF payload.hasCommand /\ tps[i].onCommand # NullCb
              THEN << Invocation(tps[i].onCommand, "command", AsString(payload.command), payload) >>
              ELSE <<>>

\* Mutant: the result of deserializeJson is not tested.
DoOnMqttMessage_NoParseCheck(tps, ds, topic, payload) ==
  LET i == FirstFrom([j \in 1..Len(tps) |-> BuildTopic(ds, tps[j].name)], topic, 1) IN
  IF i = 0 THEN <<>>
  ELSE IF payload.json /\ payload.hasCommand /\ tps[i].onCommand # NullCb
       THEN << Invocation(tps[i].onCommand, "command", AsString(payload.command), payload) >>
       ELSE IF tps[i].onMessage # NullCb
            THEN << Invocation(tps[i].onMessage, "message", topic, payload) >>
            ELSE <<>>

\* Mutant: a binding matches when the topic ends in "/" and its name,
\* whatever the prefix and the device id.
EndsWith(topic, name) ==
  Len(topic) > Len(name) /\ SubSeq(topic, Len(topic) - Len(name), Len(topic)) = "/" \o name
DoOnMqttMessage_SuffixMatch(tps, ds, topic, payload) ==
  IF ~ParsesOk(payload) THEN <<>>
  ELSE
    LET hits == {j \in 1..Len(tps) : EndsWith(topic, tps[j].name)} IN
    IF hits = {} THEN <<>>
    ELSE LET i == CHOOSE j \in hits : \A k \in hits : j <= k IN
         IF payload.hasCommand /\ tps[i].onCommand # NullCb
         THEN << Invocation(tps[i].onCommand, "command", AsString(payload.command), payload) >>
         ELSE IF tps[i].onMessage # NullCb
              THEN << Invocation(tps[i].onMessage, "message", topic, payload) >>
              ELSE <<>>

DoOnMqttMessage(tps, ds, topic, payload) ==
  IF ~ParsesOk(payload) THEN <<>>
  ELSE
    LET i == FirstFrom([j \in 1..Len(tps) |-> BuildTopic(ds, tps[j].name)], topic, 1) IN
    IF i = 0 THEN <<>>
    ELSE IF payload.hasCommand /\ tps[i].onCommand # NullCb
         THEN << Invocation(tps[i].onCommand, "command", AsString(payload.command), payload) >>
         ELSE IF tps[i].onMessage # NullCb
              THEN << Invocation(tps[i].onMessage, "message", topic, payload) >>
              ELSE <<>>

\* Mutant: the deadline last + interval is compared with the clock without
\* reducing it modulo 2^32.
StatusDue_NoWrap(auto, t, last, interval) ==
  LET lo == last.lo + interval.lo
      hi == last.hi + interval.hi + (lo \div Word) IN
  auto /\ (t.hi > hi \/ (t.hi = hi /\ t.lo >= lo % Word))

\* The elapsed-time test of loop(), line 197, in uint32_t arithmetic.
StatusDue(auto, t, last, interval) == auto /\ U32Geq(U32Sub(t, last), interval)

(***************************************************************************)
(* The MQTT manager: actions.                                              *)
(***************************************************************************)
\* Mutant: a registration on a connected transport subscribes at once.
RegisterTopic_Subscribes(name, cmdCallback, msgCallback) ==
  /\ UNCHANGED regVars
  /\ Len(topics) < MaxTopics
  /\ topics' = DoRegisterTopic(topics, name, cmdCallback, msgCallback)
  /\ transport' = IF IsConnected(mqttClient, transport)
                  THEN [transport EXCEPT !.subs = @ \cup {BuildTopic(deviceStatus, name)}]
                  ELSE transport
  /\ out' = After(out, [NoEffects("registerTopic") EXCEPT !.ret = TRUE])
  /\ UNCHANGED <<mqttClient, deviceStatus, lastStatusPublish, statusPublishInterval,
                 autoStatusReport, now, ticks, wifi>>

\* registerTopic, lines 83-94.
RegisterTopic(name, cmdCallback, msgCallback) ==
  /\ UNCHANGED regVars
  /\ Len(topics) < MaxTopics
  /\ topics' = DoRegisterTopic(topics, name, cmdCallback, msgCallback)
  /\ out' = After(out, [NoEffects("registerTopic") EXCEPT !.ret = TRUE])
  /\ UNCHANGED <<mqttClient, deviceStatus, lastStatusPublish, statusPublishInterval,
                 autoStatusReport, transport, now, ticks, wifi>>

UnregisterTopic(name) ==
  /\ UNCHANGED regVars
  /\ topics' = DoUnregisterTopic(topics, name)
  /\ out' = After(out, [NoEffects("unregisterTopic") EXCEPT !.ret = TRUE])
  /\ UNCHANGED <<mqttClient, deviceStatus, lastStatusPublish, statusPublishInterval,
                 autoStatusReport, transport, now, ticks, wifi>>

Connect(handshakeOk) ==
  LET r == DoConnect(mqttClient, topics, deviceStatus, transport, configValues,
                     now, wifi, handshakeOk) IN
  /\ UNCHANGED regVars
  /\ (mqttClient = "null" \/ transport.connected) => handshakeOk  \* input not read
  /\ deviceStatus' = r.ds
  /\ transport' = r.tr
  /\ out' = After(out, r.fx)
  /\ UNCHANGED <<mqttClient, topics, lastStatusPublish, statusPublishInterval,
                 autoStatusReport, now, ticks, wifi>>

Disconnect ==
  LET r == DoDisconnect(mqttClient, deviceStatus, transport) IN
  /\ UNCHANGED regVars
  /\ deviceStatus' = r.ds
  /\ transport' = r.tr
  /\ out' = After(out, r.fx)
  /\ UNCHANGED <<mqttClient, topics, lastStatusPublish, statusPublishInterval,
                 autoStatusReport, now, ticks, wifi>>

\* What the broker can deliver: a message on a topic of the session's
\* subscriptions or on a foreign topic, or nothing.
Deliverable ==
  {NoInbound} \cup
  { [topic |-> t, payload |-> p.id] : t \in transport.subs \cup ForeignTopics, p \in Payloads }
PayloadOf(id) == CHOOSE p \in Payloads : p.id = id

\* loop(), lines 188-202.  Not connected: one connect().  Connected: the
\* client's loop() delivers the pending message to onMqttMessage, then the
\* status interval is tested.
Loop(handshakeOk, inbound) ==
  /\ UNCHANGED regVars
  /\ IF mqttClient = "null"
       THEN /\ handshakeOk /\ inbound = NoInbound  \* inputs not read
            /\ out' = After(out, NoEffects("loop"))
            /\ UNCHANGED <<mqttClient, topics, deviceStatus, lastStatusPublish,
                           statusPublishInterval, autoStatusReport, transport, now, ticks, wifi>>
       ELSE IF ~transport.connected
       THEN LET r == DoConnect(mqttClient, topics, deviceStatus, transport, configValues,
                               now, wifi, handshakeOk) IN
            /\ inbound = NoInbound  \* input not read
            /\ deviceStatus' = r.ds
            /\ transport' = r.tr
            /\ out' = After(out, [r.fx EXCEPT !.op = "loop"])
            /\ UNCHANGED <<mqttClient, topics, lastStatusPublish, statusPublishInterval,
                           autoStatusReport, now, ticks, wifi>>
       ELSE LET calls == IF inbound = NoInbound THEN <<>>
                         ELSE DoOnMqttMessage(topics, deviceStatus, inbound.topic,
                                              PayloadOf(inbound.payload))
                due == StatusDue(autoStatusReport, now, lastStatusPublish, statusPublishInterval)
                st == DoPublishStatus(mqttClient, deviceStatus, transport, now)
            IN
            /\ handshakeOk  \* input not read
            /\ inbound \in Deliverable
            /\ lastStatusPublish' = IF due THEN now ELSE lastStatusPublish
            /\ out' = After(out, [NoEffects("loop") EXCEPT
                                     !.ret = TRUE, !.calls = calls, !.inbound = inbound,
                                     !.pubs = IF due THEN st.pubs ELSE <<>>,
                                     !.events = LoopEvents(calls, IF due THEN st.pubs ELSE <<>>)])
            /\ UNCHANGED <<mqttClient, topics, deviceStatus, statusPublishInterval,
                           autoStatusReport, transport, now, ticks, wifi>>

\* The transport loses the connection without the manager being told.
TransportDrop ==
  /\ UNCHANGED regVars
  /\ transport.connected
  /\ transport' = [connected |-> FALSE, subs |-> {}]
  /\ out' = After(out, NoEffects("transportDrop"))
  /\ UNCHANGED <<mqttClient, topics, deviceStatus, lastStatusPublish, statusPublishInterval,
                 autoStatusReport, now, ticks, wifi>>

TimePasses(d) ==
  /\ UNCHANGED regVars
  /\ ticks < MaxTicks
  /\ ticks' = ticks + 1
  /\ now' = U32Add(now, d)
  /\ out' = After(out, NoEffects("timePasses"))
  /\ UNCHANGED <<mqttClient, topics, deviceStatus, lastStatusPublish, statusPublishInterval,
                 autoStatusReport, transport, wifi>>

(***************************************************************************)
(* The MQTT manager: status and publishing operations.                     *)
(***************************************************************************)
\* millis() / 1000 on a uint32_t.
U32Div1000(t) ==
  LET a == t.hi \div 1000
      b == t.hi % 1000 IN
  a * Word + ((b * Word + t.lo) \div 1000)

\* What WiFi.RSSI() and WiFi.localIP() may return over time.
WifiStates == { [rssi |-> 0 - 60, ip |-> "10.0.0.5"], [rssi |-> 0 - 75, ip |-> "10.0.0.9"] }

\* The DeviceStatus records the application may hand to updateStatus: the
\* manager's identity, and the application's own view of the connection.
StatusInputs ==
  { [ deviceId |-> DeviceId, chipType |-> ChipType, isConnected |-> c, uptime |-> 0,
      lastUpdateTime |-> U32(0), signalStrength |-> 0, ipAddress |-> "" ] : c \in BOOLEAN }

IntervalInputs == {U32(60000)}
PublishTopics == {"data"}
StatusTopicDecls == { <<"cmd", "onCmd", "onMsg">> }

\* updateStatus, lines 221-227: the whole record is taken from the argument,
\* then uptime, signal strength, IP address and update time are refreshed.
DoUpdateStatus(status, t, net) ==
  [status EXCEPT !.uptime = U32Div1000(t), !.signalStrength = net.rssi,
                 !.ipAddress = net.ip, !.lastUpdateTime = t]

UpdateStatus(status) ==
  /\ UNCHANGED regVars
  /\ deviceStatus' = DoUpdateStatus(status, now, wifi)
  /\ out' = After(out, NoEffects("updateStatus"))
  /\ UNCHANGED <<mqttClient, topics, lastStatusPublish, statusPublishInterval,
                 autoStatusReport, transport, now, ticks, wifi>>

\* The effects of a publishing call.
Published(op, r) ==
  [NoEffects(op) EXCEPT !.ret = r.ret, !.pubs = r.pubs, !.events = PubEvents(r.pubs)]

Publish(topic, message) ==
  /\ UNCHANGED regVars
  /\ out' = After(out, Published("publish",
                   DoPublish(mqttClient, deviceStatus, transport, topic, [text |-> message])))
  /\ UNCHANGED <<mqttClient, topics, deviceStatus, lastStatusPublish, statusPublishInterval,
                 autoStatusReport, transport, now, ticks, wifi>>

\* publishJson, lines 251-255: serializeJson, then publish.
PublishJson(topic, doc) ==
  /\ UNCHANGED regVars
  /\ out' = After(out, Published("publishJson",
                   DoPublish(mqttClient, deviceStatus, transport, topic, doc)))
  /\ UNCHANGED <<mqttClient, topics, deviceStatus, lastStatusPublish, statusPublishInterval,
                 autoStatusReport, transport, now, ticks, wifi>>

PublishStatus ==
  /\ UNCHANGED regVars
  /\ out' = After(out, Published("publishStatus",
                   DoPublishStatus(mqttClient, deviceStatus, transport, now)))
  /\ UNCHANGED <<mqttClient, topics, deviceStatus, lastStatusPublish, statusPublishInterval,
                 autoStatusReport, transport, now, ticks, wifi>>

PublishCommandResponse(command, success, message) ==
  /\ UNCHANGED regVars
  /\ out' = After(out, Published("publishCommandResponse",
                   DoPublishCommandResponse(mqttClient, deviceStatus, transport,
                                            command, success, message, now)))
  /\ UNCHANGED <<mqttClient, topics, deviceStatus, lastStatusPublish, statusPublishInterval,
                 autoStatusReport, transport, now, ticks, wifi>>

\* setStatusPublishInterval, lines 207-209.
SetStatusPublishInterval(intervalMs) ==
  /\ UNCHANGED regVars
  /\ statusPublishInterval' = intervalMs
  /\ out' = After(out, NoEffects("setStatusPublishInterval"))
  /\ UNCHANGED <<mqttClient, topics, deviceStatus, lastStatusPublish,
                 autoStatusReport, transport, now, ticks, wifi>>

\* setAutoStatusReport, lines 214-216.
SetAutoStatusReport(enabled) ==
  /\ UNCHANGED regVars
  /\ autoStatusReport' = enabled
  /\ out' = After(out, NoEffects("setAutoStatusReport"))
  /\ UNCHANGED <<mqttClient, topics, deviceStatus, lastStatusPublish,
                 statusPublishInterval, transport, now, ticks, wifi>>

\* The WiFi link changes its signal strength and address.
WifiChanges(net) ==
  /\ UNCHANGED regVars
  /\ net # wifi
  /\ wifi' = net
  /\ out' = After(out, NoEffects("wifiChanges"))
  /\ UNCHANGED <<mqttClient, topics, deviceStatus, lastStatusPublish, statusPublishInterval,
                 autoStatusReport, transport, now, ticks>>

\* deviceStatus.signalStrength is not set by the constructor: what the
\* member holds until updateStatus() is whatever the memory held.
GarbageInts == {0, 12345}

InitManager ==
  /\ mqttClient \in {"client", "null"}
  /\ topics = <<>>
  /\ deviceStatus \in
       { [ deviceId |-> DeviceId, chipType |-> ChipType, isConnected |-> FALSE, uptime |-> 0,
           lastUpdateTime |-> U32(0), signalStrength |-> g, ipAddress |-> "" ] :
         g \in GarbageInts }
  /\ lastStatusPublish = U32(0)
  /\ statusPublishInterval = U32(DefaultStatusInterval)
  /\ autoStatusReport = TRUE
  /\ transport = [connected |-> FALSE, subs |-> {}]
  /\ now = U32(0)
  /\ ticks = 0
  /\ wifi = [rssi |-> 0 - 60, ip |-> "10.0.0.5"]
  /\ out = NoEffects("construct")

\* The registry as the firmware's setup left it when the manager is built:
\* nothing registered, or broker credentials registered and set.
InitCredentials ==
  \/ InitParams /\ fileStore = NoFile
  \/ /\ configParams =
          << [NewParam("mqtt_user", ParamLabel("mqtt_user"), "", 4) EXCEPT !.value = "u"],
             NewParam("mqtt_pass", ParamLabel("mqtt_pass"), "pw", 4) >>
     /\ configValues = [k \in ParamKeys |-> IF k = "mqtt_user" THEN "u" ELSE "pw"]
     /\ fileStore = NoFile
     /\ savedMap = NoMap
     /\ fresh = FALSE
     /\ regCall = RegCall("setConfigValue", "mqtt_user", "u", TRUE)

NextMqtt ==
  \/ \E d \in TopicDecls : RegisterTopic(d[1], d[2], d[3])
  \/ \E n \in TopicNames : UnregisterTopic(n)
  \/ \E ok \in BOOLEAN : Connect(ok)
  \/ Disconnect
  \/ \E ok \in BOOLEAN, m \in Deliverable : Loop(ok, m)
  \/ TransportDrop
  \/ \E d \in TimeSteps : TimePasses(d)

(***************************************************************************)
(* Specifications.  The registry and the manager share one address space;  *)
(* SpecRegistry runs the registry operations, SpecManager the manager's.   *)
(***************************************************************************)
InitRegistry ==
  InitParams /\ InitManager /\ mqttClient = "client" /\ deviceStatus.signalStrength = 0
SpecRegistry == InitRegistry /\ [][NextRegistry]_vars

InitMqtt == InitCredentials /\ InitManager /\ deviceStatus.signalStrength = 0
SpecManager == InitMqtt /\ [][NextMqtt]_vars

\* The status and publishing operations, with the lifecycle around them.
StatusDeliverable ==
  {NoInbound} \cup {[topic |-> t, payload |-> "cmd_reboot"] : t \in transport.subs}

NextStatus ==
  \/ \E d \in StatusTopicDecls : RegisterTopic(d[1], d[2], d[3])
  \/ \E d \in StatusTopicDecls : UnregisterTopic(d[1])
  \/ \E ok \in BOOLEAN : Connect(ok)
  \/ Disconnect
  \/ \E ok \in BOOLEAN, m \in StatusDeliverable : Loop(ok, m)
  \/ TransportDrop
  \/ \E d \in TimeSteps : TimePasses(d)
  \/ \E st \in StatusInputs : UpdateStatus(st)
  \/ \E t \in PublishTopics : Publish(t, "hello")
  \/ \E t \in PublishTopics : PublishJson(t, [value |-> 1])
  \/ PublishStatus
  \/ PublishCommandResponse("reboot", TRUE, "done")
  \/ \E i \in IntervalInputs : SetStatusPublishInterval(i)
  \/ \E b \in BOOLEAN : SetAutoStatusReport(b)
  \/ \E n \in WifiStates : WifiChanges(n)

InitStatus == InitParams /\ fileStore = NoFile /\ InitManager
SpecStatus == InitStatus /\ [][NextStatus]_vars

\* Reconnection: the lifecycle and the topic registry, with the application
\* calling loop() for ever and the broker accepting a handshake whenever the
\* manager keeps asking.
NextReconnect ==
  \/ \E d \in TopicDecls : RegisterTopic(d[1], d[2], d[3])
  \/ \E n \in TopicNames : UnregisterTopic(n)
  \/ \E ok \in BOOLEAN : Connect(ok)
  \/ Disconnect
  \/ \E ok \in BOOLEAN, m \in StatusDeliverable : Loop(ok, m)
  \/ TransportDrop

LoopAccepted == \E m \in StatusDeliverable : Loop(TRUE, m)

SpecReconnect == InitMqtt /\ [][NextReconnect]_vars /\ WF_vars(LoopAccepted)

\* Status scheduling over a long uptime: the clock advances by seconds or by
\* weeks (2^32 - 5000 ms), so that it wraps around.
WrapSteps == {U32(10000), U32(30000), [hi |-> Word - 1, lo |-> Word - 5000]}

NextSchedule ==
  \/ \E ok \in BOOLEAN : Connect(ok)
  \/ \E ok \in BOOLEAN, m \in StatusDeliverable : Loop(ok, m)
  \/ TransportDrop
  \/ \E d \in WrapSteps : TimePasses(d)
  \/ \E i \in IntervalInputs : SetStatusPublishInterval(i)
  \/ \E b \in BOOLEAN : SetAutoStatusReport(b)

InitSchedule == InitStatus /\ mqttClient = "client" /\ deviceStatus.signalStrength = 0
SpecSchedule == InitSchedule /\ [][NextSchedule]_vars

Init == InitParams /\ InitManager
Next == NextRegistry \/ NextMqtt \/ NextStatus \/ NextSchedule
Spec == Init /\ [][Next]_vars

(***************************************************************************)
(* Properties of the registry.                                             *)
(***************************************************************************)
MaxLengthOf(params, key) == params[IndexOfParam(params, key)].maxLength

\* C2: for a registered key, after set(key, v) get(key) returns v when
\* len(v) <= maxLength, and when len(v) > maxLength get(key) returns the value
\* it had before and the registry and the persisted document are unchanged.
C2_SetRespectsMaxLength ==
  [][ (regCall'.op = "setConfigValue" /\ regCall'.ret) =>
        LET k == regCall'.key
            v == regCall'.value IN
        IF Len(v) <= MaxLengthOf(configParams, k)
        THEN GetConfigValue(configValues', k) = v
        ELSE /\ GetConfigValue(configValues', k) = GetConfigValue(configValues, k)
             /\ configParams' = configParams
             /\ fileStore' = fileStore ]_regVars

\* C3: every ConfigParam satisfies length(currentValue) <= maxLength.
C3_ValueWithinMaxLength ==
  \A i \in 1..Len(configParams) : Len(configParams[i].value) <= configParams[i].maxLength

\* C4: the parameter sequence and the key -> value map agree: same key set,
\* keys of the sequence pairwise distinct, and the map's value of each key is
\* that parameter's current value.
C4_SequenceAndMapInSync ==
  /\ DOMAIN configValues = {configParams[i].key : i \in 1..Len(configParams)}
  /\ \A i, j \in 1..Len(configParams) :
        configParams[i].key = configParams[j].key => i = j
  /\ \A i \in 1..Len(configParams) :
        configValues[configParams[i].key] = configParams[i].value

\* C4 witness: two parameters are registered, and a value set afterwards is
\* in both containers.
C4_Witness ==
  /\ Len(configParams) = 2
  /\ configParams[1].key = "mqtt_pass"
  /\ regCall.op = "setConfigValue" /\ regCall.ret
  /\ configValues[regCall.key] = regCall.value
  /\ configParams[IndexOfParam(configParams, regCall.key)].value = regCall.value
  /\ \E i \in 1..2 : configParams[i].value # configParams[i].defaultValue

\* C5: a completed save followed, after a restart that registers the same
\* keys, by a successful load yields the key -> value map that was saved.
C5_SaveLoadRoundTrip ==
  ( /\ regCall.op = "readConfig" /\ regCall.ret
    /\ fresh
    /\ savedMap.has
    /\ DOMAIN savedMap.map = DOMAIN configValues )
  => configValues = savedMap.map

\* C5 witness: the scenario of the specification, a value set before the
\* restart is returned by get after the restart and the load.
C5_Witness ==
  /\ regCall.op = "readConfig" /\ regCall.ret
  /\ fresh
  /\ savedMap.has
  /\ DOMAIN savedMap.map = ParamKeys
  /\ DOMAIN configValues = ParamKeys
  /\ GetConfigValue(configValues, "mqtt_user") = "u"
  /\ GetConfigValue(configValues, "mqtt_pass") = "secret"

\* The parameters of the registry hold their defaults, in both containers.
AllDefaults(params, values) ==
  \A i \in 1..Len(params) :
    /\ params[i].value = params[i].defaultValue
    /\ params[i].key \in DOMAIN values
    /\ values[params[i].key] = params[i].defaultValue

\* C18: a saveConfig() either writes the complete new document and returns
\* true, or leaves the previous document as it was and returns false.
C18_SaveIsAtomic ==
  [][ (regCall'.op = "saveConfig") =>
        \/ /\ fileStore' = DocFile(DocOfParams(configParams, 1, EmptyMap))
           /\ regCall'.ret
        \/ /\ fileStore' = fileStore
           /\ ~regCall'.ret ]_vars

\* C19: readConfig() on a readable document gives every parameter whose key
\* the document holds the stored value and leaves every other parameter at
\* its default, adds no parameter, and returns true; on a missing or
\* unreadable file it returns false and changes nothing.
C19_LoadSemantics ==
  [][ (regCall'.op = "readConfig") =>
        IF regCall'.ret
        THEN /\ fileStore.kind = "doc"
             /\ ParamKeysOf(configParams') = ParamKeysOf(configParams)
             /\ DOMAIN configValues' = DOMAIN configValues
             /\ \A i \in 1..Len(configParams) :
                  LET k == configParams[i].key IN
                  /\ configValues'[k] = configParams'[i].value
                  /\ configParams'[i].value =
                       IF k \in DOMAIN fileStore.doc
                       THEN AsString(fileStore.doc[k])
                       ELSE configParams[i].defaultValue
        ELSE UNCHANGED <<configParams, configValues>> ]_vars

\* C20: after resetConfig() every parameter holds its default in the
\* sequence and the map and the file is gone; a readConfig() right after it
\* returns false and leaves the defaults.
C20_ResetRestoresDefaults ==
  [][ /\ (regCall'.op = "resetConfig") =>
           (AllDefaults(configParams', configValues') /\ fileStore' = NoFile)
      /\ (regCall.op = "resetConfig" /\ regCall'.op = "readConfig") =>
           /\ ~regCall'.ret
           /\ AllDefaults(configParams', configValues')
           /\ UNCHANGED <<configParams, configValues, fileStore>> ]_vars

\* C20 witness: reset() has just run on two parameters, one of which had
\* taken a value from the portal (its portal field still shows that value).
C20_Witness ==
  /\ regCall.op = "resetConfig"
  /\ Len(configParams) = 2
  /\ AllDefaults(configParams, configValues)
  /\ fileStore = NoFile
  /\ \E i \in 1..2 : configParams[i].wfmParam = "secr" /\ configParams[i].defaultValue # "secr"

(***************************************************************************)
(* Properties of the MQTT manager.                                         *)
(***************************************************************************)
\* The fully-qualified names of the current bindings, in registration order.
QualifiedNames == [i \in 1..Len(topics) |-> BuildTopic(deviceStatus, topics[i].name)]

\* The binding the dispatcher finds for the message of the last step (0: none).
Matched(fx) == FirstFrom(QualifiedNames, fx.inbound.topic, 1)

Delivered(fx) == fx.op = "loop" /\ fx.inbound # NoInbound

\* A loop() step that left the manager as a loop() without a message does:
\* only the status schedule may move, and only as the interval test says.
AsWithoutMessage ==
  /\ topics' = topics
  /\ deviceStatus' = deviceStatus
  /\ transport' = transport
  /\ statusPublishInterval' = statusPublishInterval
  /\ autoStatusReport' = autoStatusReport
  /\ lastStatusPublish' =
       IF StatusDue(autoStatusReport, now, lastStatusPublish, statusPublishInterval)
       THEN now ELSE lastStatusPublish

\* C1: the topic registry holds at most one binding per topic name.
C1_OneBindingPerName ==
  \A i, j \in 1..Len(topics) : topics[i].name = topics[j].name => i = j

\* C6: when connect() returns true, the fully-qualified name of every
\* registered binding was subscribed exactly once during that call.
C6_EachTopicSubscribedOnce ==
  (out.connects = 1 /\ out.ret) =>
    \A i \in 1..Len(topics) :
      Cardinality({j \in 1..Len(out.subs) : out.subs[j] = QualifiedNames[i]}) = 1

\* C7: disconnect() while connected publishes exactly one offline event,
\* disconnects the transport and clears the connected flag; a disconnect()
\* right after a disconnect() publishes nothing and changes nothing.
C7_DisconnectIdempotent ==
  [][ (out'.op = "disconnect") =>
        /\ IsConnected(mqttClient, transport) =>
             /\ Len(out'.pubs) = 1
             /\ out'.pubs[1].topic = "home/dev1/offline"
             /\ ~transport'.connected
             /\ ~deviceStatus'.isConnected
        /\ out'.again =>
             /\ out'.pubs = <<>>
             /\ UNCHANGED <<mqttClient, topics, deviceStatus, transport, lastStatusPublish,
                            statusPublishInterval, autoStatusReport>> ]_vars

\* C7 witness: a second disconnect() in a row, with bindings registered.
C7_Witness ==
  /\ out.op = "disconnect" /\ out.again
  /\ out.pubs = <<>>
  /\ Len(topics) > 0
  /\ ~transport.connected /\ ~deviceStatus.isConnected

\* C8: a message on a registered topic whose payload parses and has a
\* "command" member, the binding having both handlers: exactly the command
\* handler is invoked, with the command value and the parsed payload.
C8_CommandHandlerOnly ==
  LET p == PayloadOf(out.inbound.payload)
      i == Matched(out) IN
  ( /\ Delivered(out)
    /\ ParsesOk(p) /\ p.hasCommand
    /\ i # 0
    /\ topics[i].onCommand # NullCb /\ topics[i].onMessage # NullCb )
  => out.calls = << [ handler |-> topics[i].onCommand, kind |-> "command",
                      arg |-> AsString(p.command), payload |-> p.id ] >>

\* C8 witness: the scenario of the specification.
C8_Witness ==
  /\ Delivered(out)
  /\ out.inbound = [topic |-> "home/dev1/cmd", payload |-> "cmd_reboot"]
  /\ topics[Matched(out)].onMessage = "onMsg"
  /\ out.calls = << [handler |-> "onCmd", kind |-> "command", arg |-> "reboot",
                     payload |-> "cmd_reboot"] >>

\* C9: a message whose payload fails JSON parsing invokes no handler and
\* leaves the manager's state as it was.
C9_ParseFailureDropsMessage ==
  [][ (Delivered(out') /\ ~ParsesOk(PayloadOf(out'.inbound.payload))) =>
        (out'.calls = <<>> /\ AsWithoutMessage) ]_vars

\* C9 witness: garbage arrives on a topic whose binding has both handlers.
C9_Witness ==
  /\ Delivered(out)
  /\ out.inbound = [topic |-> "home/dev1/cmd", payload |-> "garbage"]
  /\ Matched(out) # 0
  /\ topics[Matched(out)].onCommand # NullCb /\ topics[Matched(out)].onMessage # NullCb
  /\ out.calls = <<>>

\* C10: a message whose topic is the fully-qualified name of no current
\* binding invokes no handler and leaves the topic registry, the device
\* status and the scheduling state as they were.
C10_UnregisteredTopicIgnored ==
  [][ (Delivered(out') /\ out'.inbound.topic \notin Range(QualifiedNames)) =>
        (out'.calls = <<>> /\ AsWithoutMessage) ]_vars

\* C10 witness: a topic that was registered, subscribed and unregistered
\* still delivers a well-formed command; other bindings with handlers remain.
C10_Witness ==
  /\ Delivered(out)
  /\ out.inbound = [topic |-> "home/dev1/data", payload |-> "cmd_reboot"]
  /\ out.inbound.topic \in transport.subs
  /\ out.inbound.topic \notin Range(QualifiedNames)
  /\ Len(topics) > 0 /\ topics[1].onCommand # NullCb
  /\ out.calls = <<>>

Kinds(events) == [i \in 1..Len(events) |-> events[i].kind]
CountKind(events, kind) == Cardinality({i \in 1..Len(events) : events[i].kind = kind})

\* C14: a loop() call that finds the transport disconnected makes exactly one
\* connect attempt, before anything else it does; a loop() call that finds it
\* connected makes none, dispatches the pending message, and publishes the
\* status, when due, only after the handler invocations.
C14_LoopOrder ==
  [][ (out'.op = "loop" /\ mqttClient # "null") =>
        IF ~transport.connected
        THEN /\ CountKind(out'.events, "connect") = 1
             /\ out'.events[1].kind = "connect"
             /\ out'.calls = <<>>
        ELSE /\ CountKind(out'.events, "connect") = 0
             /\ out'.inbound # NoInbound =>
                  out'.calls = DoOnMqttMessage(topics, deviceStatus, out'.inbound.topic,
                                               PayloadOf(out'.inbound.payload))
             /\ (out'.pubs # <<>>) =
                  StatusDue(autoStatusReport, now, lastStatusPublish, statusPublishInterval)
             /\ \A i, j \in 1..Len(out'.events) :
                  (out'.events[i].kind = "publish" /\ out'.events[j].kind = "call") => j < i
      ]_vars

\* C14 witness: one loop() call dispatched a command and then published the status.
C14_Witness ==
  /\ out.op = "loop"
  /\ Len(out.calls) = 1 /\ Len(out.pubs) = 1
  /\ Kinds(out.events) = <<"call", "publish">>

\* C15: a connect() whose handshake is accepted returns true, leaves the
\* manager connected, subscribes every binding and then publishes one online
\* event; a connect() whose handshake is refused returns false, leaves it
\* disconnected and issues no subscribe request and no online event.
C15_ConnectOutcome ==
  (out.op = "connect" /\ out.connects = 1) =>
    IF out.events[1].what = "accepted"
    THEN /\ out.ret
         /\ transport.connected /\ deviceStatus.isConnected
         /\ out.subs = QualifiedNames
         /\ Range(QualifiedNames) \subseteq transport.subs
         /\ Len(out.pubs) = 1 /\ out.pubs[1].payload.status = "online"
         /\ Kinds(out.events) =
              <<"connect">> \o [i \in 1..Len(topics) |-> "subscribe"] \o <<"publish">>
    ELSE /\ ~out.ret
         /\ ~transport.connected /\ ~deviceStatus.isConnected
         /\ out.subs = <<>> /\ out.pubs = <<>>
         /\ Kinds(out.events) = <<"connect">>

\* C15 witness: an accepted connect() with two bindings registered.
C15_Witness ==
  /\ out.op = "connect" /\ out.ret
  /\ Len(topics) = 2 /\ Len(out.subs) = 2 /\ Len(out.pubs) = 1
  /\ topics[1].name # topics[2].name

\* C16: registerTopic() issues no subscribe request; loop() on a connected
\* transport subscribes nothing; a name enters the session's subscriptions
\* only in a call whose connect() succeeded, which subscribes every binding.
C16_LateRegistration ==
  [][ /\ (out'.op = "registerTopic") =>
           (out'.subs = <<>> /\ out'.events = <<>> /\ transport' = transport)
      /\ (out'.op = "loop" /\ IsConnected(mqttClient, transport)) =>
           (out'.subs = <<>> /\ transport'.subs = transport.subs)
      /\ \A n \in transport'.subs \ transport.subs :
           out'.connects = 1 /\ out'.ret /\ n \in Range(out'.subs)
      /\ (out'.connects = 1 /\ out'.ret) =>
           (\A i \in 1..Len(topics) : BuildTopic(deviceStatus', topics[i].name) \in transport'.subs)
    ]_vars

\* C16 witness: a loop() on a connected transport while a binding registered
\* after the connect is still not subscribed.
C16_Witness ==
  /\ out.op = "loop" /\ out.ret /\ out.connects = 0
  /\ transport.connected
  /\ \E i \in 1..Len(topics) : QualifiedNames[i] \notin transport.subs

(***************************************************************************)
(* Properties of the status and publishing operations.                     *)
(***************************************************************************)
\* The event a call publishes: the last segment of its topic ("": none).
EventSuffix(fx) ==
  CASE fx.op = "connect" -> "online"
    [] fx.op = "disconnect" -> "offline"
    [] fx.op = "publishStatus" -> "status"
    [] fx.op = "publishCommandResponse" -> "response"
    [] fx.op = "loop" -> (IF fx.connects = 1 THEN "online" ELSE "status")
    [] OTHER -> ""

\* C11: every status and event publication is handed to the transport with
\* the topic prefix/deviceId/suffix, the suffix being status, online, offline
\* or response.
C11_EventTopicsQualifiedOnce ==
  (EventSuffix(out) # "") =>
    \A i \in 1..Len(out.pubs) :
      out.pubs[i].topic = BaseTopicPrefix \o "/" \o DeviceId \o "/" \o EventSuffix(out)

\* C12: every document published by publishStatus(), called directly or by
\* loop(), carries the uptime, signal strength and IP address of the time of
\* that call.
C12_StatusIsFresh ==
  (out.op = "publishStatus" \/ (out.op = "loop" /\ out.connects = 0)) =>
    \A i \in 1..Len(out.pubs) :
      /\ out.pubs[i].payload.uptime = U32Div1000(now)
      /\ out.pubs[i].payload.signal_strength = wifi.rssi
      /\ out.pubs[i].payload.ip_address = wifi.ip

PublishOps == {"publish", "publishJson", "publishStatus", "publishCommandResponse"}

\* C13: publish(), publishJson(), publishStatus() and publishCommandResponse()
\* on a transport that is not connected return false, hand nothing to the
\* transport and change nothing in the manager.
C13_NoPublishWhenDisconnected ==
  [][ (out'.op \in PublishOps /\ ~IsConnected(mqttClient, transport)) =>
        /\ ~out'.ret
        /\ out'.pubs = <<>> /\ out'.events = <<>>
        /\ UNCHANGED <<mqttClient, topics, deviceStatus, lastStatusPublish,
                       statusPublishInterval, autoStatusReport, transport>> ]_vars

\* C13 witness: publishStatus() on a transport that is not connected while
\* the cached flag says connected.
C13_Witness ==
  /\ out.op = "publishStatus" /\ ~out.ret /\ out.pubs = <<>>
  /\ mqttClient = "client" /\ ~transport.connected
  /\ deviceStatus.isConnected

\* C17: deviceStatus.isConnected changes only in connect() and disconnect(),
\* called directly or, for connect(), by loop().
C17_FlagChangedByLifecycleOnly ==
  [][ (deviceStatus'.isConnected # deviceStatus.isConnected) =>
        \/ out'.op \in {"connect", "disconnect"}
        \/ out'.op = "loop" /\ out'.connects = 1 ]_vars

(***************************************************************************)
(* Reconnection.                                                           *)
(***************************************************************************)
ConnectedAndSubscribed ==
  /\ transport.connected
  /\ deviceStatus.isConnected
  /\ Range(QualifiedNames) \subseteq transport.subs

\* C21: whenever the manager (with a client) finds itself disconnected, after
\* a refused handshake, a disconnect() or a silent loss of the transport, and
\* loop() keeps being called with the broker accepting, it is eventually
\* connected with every registered binding subscribed.
C21_ReconnectLiveness ==
  (mqttClient # "null" /\ ~transport.connected) ~> ConnectedAndSubscribed

\* C21 witness: a loop() whose handshake was accepted right after a loop()
\* whose handshake was refused, with two bindings subscribed.
C21_Witness ==
  /\ out.op = "loop" /\ out.again
  /\ out.connects = 1 /\ out.ret
  /\ Len(topics) = 2
  /\ ConnectedAndSubscribed

(***************************************************************************)
(* Dispatch: how many handlers one message reaches.                        *)
(***************************************************************************)
\* C23: one delivered message invokes at most one handler; a payload with a
\* "command" member whose binding has no command handler goes to the
\* binding's message handler; a binding with no applicable handler drops it.
C23_AtMostOneHandler ==
  Delivered(out) =>
    LET p == PayloadOf(out.inbound.payload)
        i == Matched(out) IN
    /\ Len(out.calls) <= 1
    /\ (ParsesOk(p) /\ i # 0) =>
         /\ (p.hasCommand /\ topics[i].onCommand = NullCb /\ topics[i].onMessage # NullCb) =>
              out.calls = << [ handler |-> topics[i].onMessage, kind |-> "message",
                               arg |-> out.inbound.topic, payload |-> p.id ] >>
         /\ (topics[i].onMessage = NullCb /\ ~(p.hasCommand /\ topics[i].onCommand # NullCb)) =>
              out.calls = <<>>

\* C23 witness: two bindings share the message's topic name; the first has
\* no command handler, the payload has a command, and only the first
\* binding's message handler ran.
C23_Witness ==
  /\ Delivered(out)
  /\ out.inbound = [topic |-> "home/dev1/cmd", payload |-> "cmd_reboot"]
  /\ Len(topics) = 2
  /\ topics[1].name = "cmd" /\ topics[2].name = "cmd"
  /\ topics[1].onCommand = NullCb /\ topics[2].onCommand # NullCb
  /\ out.calls = << [handler |-> "onMsgB", kind |-> "message", arg |-> "home/dev1/cmd",
                     payload |-> "cmd_reboot"] >>

(***************************************************************************)
(* Status scheduling.                                                      *)
(***************************************************************************)
\* (now - lastStatusPublish) mod 2^32 >= statusPublishInterval.
IntervalElapsed == U32Geq(U32Sub(now, lastStatusPublish), statusPublishInterval)

\* C22: a loop() call on a connected transport publishes the status exactly
\* when automatic reporting is on and the interval has elapsed, modulo 2^32,
\* since the last such publish; it publishes once and sets lastStatusPublish
\* to the current time; nothing else moves lastStatusPublish, so two
\* triggers are at least the interval apart, and none happens with
\* automatic reporting off.
C22_StatusScheduling ==
  [][ /\ (out'.op = "loop" /\ IsConnected(mqttClient, transport)) =>
           IF autoStatusReport /\ IntervalElapsed
           THEN /\ Len(out'.pubs) = 1
                /\ out'.pubs[1].payload.timestamp = now
                /\ out'.pubs[1].payload.device_id = deviceStatus.deviceId
                /\ lastStatusPublish' = now
           ELSE /\ out'.pubs = <<>>
                /\ lastStatusPublish' = lastStatusPublish
      /\ (lastStatusPublish' # lastStatusPublish) =>
           /\ out'.op = "loop" /\ IsConnected(mqttClient, transport)
           /\ autoStatusReport /\ IntervalElapsed
    ]_vars

\* C22 witness: a status publish at a clock value below the interval, which
\* only a wrapped clock gives: the previous publish was before the wrap.
C22_Witness ==
  /\ out.op = "loop" /\ Len(out.pubs) = 1
  /\ statusPublishInterval = U32(DefaultStatusInterval)
  /\ now.hi = 0 /\ now.lo < DefaultStatusInterval /\ now.lo > 0
  /\ lastStatusPublish = now

====
